---- MODULE Spec2Model ----
(***************************************************************************)
(* dissect-netwayste: capture frames on a network interface, keep the     *)
(* IPv4/UDP ones, try to decode the payload as a netwayste packet and     *)
(* print a (colorized) trace.  The model follows main() of                *)
(* src/dissect-netwayste/src/main.rs statement by statement (Spec).       *)
(* jupyter-no-output: the pre-commit hook that refuses staged notebooks   *)
(* with cell outputs, src/jupyter-no-output/jupyter-no-output.rs          *)
(* (SpecHook).  The two programs share nothing; each specification keeps  *)
(* the other program's variables at rest.                                 *)
(***************************************************************************)
EXTENDS Integers, Sequences, FiniteSets, TLC

VARIABLES
    pc,             \* position of main(): resolve, open, compile, install, loop, exited, panicked
    args,           \* the parsed command line (Args), immutable
    wire,           \* the frames the network can carry during this run, immutable
    device_name,    \* Option<String>: name of the resolved device
    cap,            \* the live capture: opened?, immediate mode?, installed filter,
                    \* has next_packet() returned an error?
    dead_compiled,  \* expressions handed to the dead capture's compile(), with the result
    filter_string,  \* Option<String>: the local filter_string
    ip_color_map,   \* HashMap<(Ipv4Addr, Option<u16>), Color>
    color_list,     \* CircularVec<Color>: data and cursor
    packet,         \* Option<frame>: the frame returned by the last next_packet()
    message_color,  \* Option<Color>: the local message_color of the last iteration
    decode_called,  \* did the last iteration call deserialize()?
    out,            \* the tracing events emitted by the last step, in order
    panic,          \* Option<String>: the message the process panicked with
    hook            \* the run of jupyter-no-output: position, git status output, lines
                    \* consumed, notebooks verified, last notebook read, exit code

vars == <<pc, args, wire, device_name, cap, dead_compiled, filter_string, ip_color_map,
          color_list, packet, message_color, decode_called, out, panic, hook>>

-----------------------------------------------------------------------------
(* Option<T> *)
None == <<>>
Some(x) == <<x>>
Unwrap(o) == o[1]

-----------------------------------------------------------------------------
(* Bounds of the model *)

\* number of distinct IPv4 source addresses on the wire of a small network
NumAddrs == 1

\* number of distinct IPv4 source addresses on the wire of a busy network
WideAddrs == 7

-----------------------------------------------------------------------------
(* The command line *)

\* values of --port and of the UDP ports seen on the wire
Ports == {12345, 9999}

\* names the capture backend enumerates, and its default device
DeviceList == {"eth0", "lo"}
DefaultDevice == "eth0"

\* values of --interface
Interfaces == {None, Some("eth0"), Some("wlan9")}

\* values of --custom-bpf
CustomFilters == {None, Some("udp port 9999"), Some("ip"), Some("udp prot 9999")}

ColorOptions == {"IPAndPort", "OnlyIP", "NoColor"}

ArgsSet == [verbose : BOOLEAN, interface : Interfaces, port : Ports,
            color_option : ColorOptions, custom_bpf : CustomFilters]

\* the command lines tried on the busy network
WideArgsSet == [verbose : BOOLEAN, interface : {None}, port : {12345},
                color_option : {"IPAndPort", "OnlyIP"}, custom_bpf : {None}]

\* a color switch that is always on
color_enabled_always(color_option) == TRUE

\* lines 48-55
color_enabled(color_option) == color_option # "NoColor"

-----------------------------------------------------------------------------
(* format!("udp port {:?}", port): the decimal rendering of a u16 *)

Digit == <<"0", "1", "2", "3", "4", "5", "6", "7", "8", "9">>

RECURSIVE FormatU16(_)
FormatU16(n) == IF n < 10 THEN Digit[n + 1]
                ELSE FormatU16(n \div 10) \o Digit[(n % 10) + 1]

\* a filter that keeps no "udp " in front of the port
DefaultFilterAnyProto(port) == "port " \o FormatU16(port)

\* a filter on one fixed port, whatever --port says
DefaultFilterFixedPort(port) == "udp port 9999"

\* line 100
DefaultFilter(port) == "udp port " \o FormatU16(port)

-----------------------------------------------------------------------------
(* The capture backend's filter language, as far as the expressions above  *)
(* use it: "udp port N" and "ip" compile, anything else is rejected.       *)

BpfPrograms ==
    ("udp port 12345" :> [proto |-> "udp", port |-> Some(12345)])
    @@ ("udp port 9999" :> [proto |-> "udp", port |-> Some(9999)])
    @@ ("ip" :> [proto |-> "ip", port |-> None])

BpfCompiles(expr) == expr \in DOMAIN BpfPrograms

\* the reason the backend gives when it rejects an expression
BpfCompileError(expr) == "syntax error"

\* does the installed filter deliver frame f?
BpfMatches(expr, f) ==
    LET prog == BpfPrograms[expr] IN
    IF prog.proto = "ip" THEN f.net = "ipv4"
    ELSE /\ f.transport = "udp"
         /\ f.sport = Unwrap(prog.port) \/ f.dport = Unwrap(prog.port)

-----------------------------------------------------------------------------
(* Frames on the wire.  link = "bad" is a frame SlicedPacket::from_ethernet *)
(* rejects; net and transport are what the slicing finds.                   *)

Payloads == {"packet", "junk"}

\* a small network carrying every kind of frame
Frames ==
    [link : {"ok"}, net : {"ipv4"}, transport : {"udp"}, src_ip : 1 .. NumAddrs,
     sport : Ports, dport : Ports, payload : Payloads]
    \cup [link : {"bad"}, net : {"ipv4"}, transport : {"udp"}, src_ip : {1},
          sport : Ports, dport : {12345}, payload : {"junk"}]
    \cup [link : {"ok"}, net : {"ipv6"}, transport : {"udp"}, src_ip : {1},
          sport : Ports, dport : {12345}, payload : Payloads]
    \cup [link : {"ok"}, net : {"ipv4"}, transport : {"tcp"}, src_ip : {1},
          sport : {12345}, dport : {12345}, payload : Payloads]
    \cup [link : {"ok"}, net : {"arp"}, transport : {"none"}, src_ip : {1},
          sport : {12345}, dport : {12345}, payload : {"junk"}]

\* a busy network of netwayste peers: many sources, all on the default port
WideFrames ==
    [link : {"ok"}, net : {"ipv4"}, transport : {"udp"}, src_ip : 1 .. WideAddrs,
     sport : {12345}, dport : {12345}, payload : Payloads]

\* bincode::deserialize::<Packet>(payload)
deserialize(payload) ==
    IF payload = "packet" THEN [ok |-> TRUE, val |-> "Packet"]
    ELSE [ok |-> FALSE, err |-> "io error"]

-----------------------------------------------------------------------------
(* Colors *)

Palette == <<"Cyan", "Yellow", "Red", "Magenta", "Green", "Blue">>

\* a next() that moves the cursor before it reads the item
CircularNextAdvanceFirst(list) ==
    LET i == (list.index + 1) % Len(list.data) IN
    [item |-> list.data[i + 1], list |-> [list EXCEPT !.index = i]]

\* CircularVec::next(): the item under the cursor; the cursor moves on, wrapping
CircularNext(list) ==
    [item |-> list.data[list.index + 1],
     list |-> [list EXCEPT !.index = (list.index + 1) % Len(list.data)]]

\* a key that keeps the port in every color mode
ColorKeyWithPort(color_option, src_ip, src_port) == <<src_ip, Some(src_port)>>

\* the key of a frame in ip_color_map
ColorKey(color_option, src_ip, src_port) ==
    IF color_option = "IPAndPort" THEN <<src_ip, Some(src_port)>>
    ELSE <<src_ip, None>>

\* HashMap::insert
MapInsert(map, key, value) ==
    [k \in DOMAIN map \cup {key} |-> IF k = key THEN value ELSE map[k]]

\* a lookup that takes a fresh color for every frame, known key or not
AssignColorAlwaysNext(map, list, key) ==
    LET n == CircularNext(list) IN
    [color |-> n.item, map |-> MapInsert(map, key, n.item), list |-> n.list]

\* a lookup that reads the color under the cursor and leaves the cursor there
AssignColorPeek(map, list, key) ==
    IF key \in DOMAIN map
    THEN [color |-> map[key], map |-> map, list |-> list]
    ELSE LET n == CircularNext(list) IN
         [color |-> n.item, map |-> MapInsert(map, key, n.item), list |-> list]

\* match ip_color_map.get_mut(&key) { Some(entry) => ..., None => ... }
AssignColor(map, list, key) ==
    IF key \in DOMAIN map
    THEN [color |-> map[key], map |-> map, list |-> list]
    ELSE LET n == CircularNext(list) IN
         [color |-> n.item, map |-> MapInsert(map, key, n.item), list |-> n.list]

-----------------------------------------------------------------------------
(* Tracing events *)

Info(text) == [level |-> "INFO", text |-> text]
Error(text) == [level |-> "ERROR", text |-> text]

Banner(dev, filter) == Info(<<"Listening to device", dev, "with filter", filter>>)

\* format!("{:>15?}:{:<5} {:?}", src_ip, src_port, nw_packet), colored or plain
MatchLine(src_ip, src_port, nw_packet, color) ==
    Info(<<"match", src_ip, src_port, nw_packet, color>>)

\* a report of structural failures that forgets the verbose flag
EthernetErrorLinesAlways(verbose, err) ==
    <<Error(<<"Failed EthernetII packet de-serialization", err>>)>>

\* lines 136-140
EthernetErrorLines(verbose, err) ==
    IF verbose THEN <<Error(<<"Failed EthernetII packet de-serialization", err>>)>>
    ELSE <<>>

\* a report of matches that is made in verbose mode only
ReportMatchIfVerbose(a, src_ip, src_port, nw_packet, color) ==
    [out |-> IF a.verbose THEN <<MatchLine(src_ip, src_port, nw_packet, color)>> ELSE <<>>,
     panic |-> None]

\* lines 176-183: the line logged, or the panic of message_color.unwrap() on None
ReportMatch(a, src_ip, src_port, nw_packet, color) ==
    IF color_enabled(a.color_option)
    THEN IF color = None
         THEN [out |-> <<>>, panic |-> Some(<<"called Option::unwrap() on a None value">>)]
         ELSE [out |-> <<MatchLine(src_ip, src_port, nw_packet, Some(Unwrap(color)))>>,
               panic |-> None]
    ELSE [out |-> <<MatchLine(src_ip, src_port, nw_packet, None)>>, panic |-> None]

\* a report of decode failures that forgets the verbose flag
DecodeErrorLinesAlways(verbose, err, payload) ==
    <<Error(<<"Failed de-serialization", err>>),
      Error(<<"Failed packet contents", payload>>)>>

\* lines 184-189
DecodeErrorLines(verbose, err, payload) ==
    IF verbose THEN <<Error(<<"Failed de-serialization", err>>),
                      Error(<<"Failed packet contents", payload>>)>>
    ELSE <<>>

-----------------------------------------------------------------------------
(* One iteration of the while loop on a frame f: the new map, the new      *)
(* color list, the final message_color, whether deserialize() was called   *)
(* and the events emitted.                                                 *)

\* SlicedPacket::from_ethernet(packet.data)
from_ethernet(f) ==
    IF f.link = "bad" THEN [ok |-> FALSE, err |-> "slice error"]
    ELSE [ok |-> TRUE, val |-> f]

\* match ethernet.transport { Some(Udp(udp)) => udp.source_port(), _ => continue }
UdpSourcePort(ethernet) ==
    IF ethernet.transport = "udp" THEN Some(ethernet.sport) ELSE None

\* a match on ethernet.ip that lets every IP version through
AnyIpSourceAddr(ethernet) ==
    IF ethernet.net \in {"ipv4", "ipv6"} THEN Some(ethernet.src_ip) ELSE None

\* match ethernet.ip { Some(Ipv4(ipv4, _)) => ipv4.source_addr(), _ => continue }
Ipv4SourceAddr(ethernet) ==
    IF ethernet.net = "ipv4" THEN Some(ethernet.src_ip) ELSE None

\* a lookup whose None arm records the new key but leaves message_color unset
ColorizeNewKeyUnset(a, map, list, src_ip, src_port) ==
    LET key == ColorKey(a.color_option, src_ip, src_port) IN
    IF color_enabled(a.color_option)
    THEN LET r == AssignColor(map, list, key) IN
         [r EXCEPT !.color = IF key \in DOMAIN map THEN Some(r.color) ELSE None]
    ELSE [color |-> None, map |-> map, list |-> list]

\* a lookup whose Some(entry) arm leaves message_color unset
ColorizeKnownKeyUnset(a, map, list, src_ip, src_port) ==
    LET key == ColorKey(a.color_option, src_ip, src_port) IN
    IF color_enabled(a.color_option)
    THEN LET r == AssignColor(map, list, key) IN
         [r EXCEPT !.color = IF key \in DOMAIN map THEN None ELSE Some(r.color)]
    ELSE [color |-> None, map |-> map, list |-> list]

\* lines 156-169: the message color, and the map and list after the lookup
Colorize(a, map, list, src_ip, src_port) ==
    LET key == ColorKey(a.color_option, src_ip, src_port) IN
    IF color_enabled(a.color_option)
    THEN LET r == AssignColor(map, list, key) IN [r EXCEPT !.color = Some(r.color)]
    ELSE [color |-> None, map |-> map, list |-> list]

\* a loop body that skips a frame unless one of its UDP ports is --port
LoopBodyPortChecked(a, map, list, f) ==
    LET skip == [map |-> map, list |-> list, color |-> None, decoded |-> FALSE,
                 out |-> <<>>, panic |-> None]
        sliced == from_ethernet(f)
    IN
    IF ~sliced.ok
    THEN [skip EXCEPT !.out = EthernetErrorLines(a.verbose, sliced.err)]
    ELSE
        LET ethernet == sliced.val
            src_port == UdpSourcePort(ethernet)
            src_ip == Ipv4SourceAddr(ethernet)
        IN
        IF src_port = None THEN skip
        ELSE IF src_ip = None THEN skip
        ELSE IF ethernet.sport # a.port /\ ethernet.dport # a.port THEN skip
        ELSE
            LET col == Colorize(a, map, list, Unwrap(src_ip), Unwrap(src_port))
                dec == deserialize(ethernet.payload)
                res == [map |-> col.map, list |-> col.list, color |-> col.color,
                        decoded |-> TRUE, out |-> <<>>, panic |-> None]
            IN  IF dec.ok
                THEN LET m == ReportMatch(a, Unwrap(src_ip), Unwrap(src_port), dec.val,
                                          col.color)
                     IN  [res EXCEPT !.out = m.out, !.panic = m.panic]
                ELSE [res EXCEPT !.out = DecodeErrorLines(a.verbose, dec.err,
                                                          ethernet.payload)]

\* a loop body that looks the color up only once the payload has decoded
LoopBodyColorAfterDecode(a, map, list, f) ==
    LET skip == [map |-> map, list |-> list, color |-> None, decoded |-> FALSE,
                 out |-> <<>>, panic |-> None]
        sliced == from_ethernet(f)
    IN
    IF ~sliced.ok
    THEN [skip EXCEPT !.out = EthernetErrorLines(a.verbose, sliced.err)]
    ELSE
        LET ethernet == sliced.val
            src_port == UdpSourcePort(ethernet)
            src_ip == Ipv4SourceAddr(ethernet)
        IN
        IF src_port = None THEN skip
        ELSE IF src_ip = None THEN skip
        ELSE
            LET dec == deserialize(ethernet.payload) IN
            IF dec.ok
            THEN LET col == Colorize(a, map, list, Unwrap(src_ip), Unwrap(src_port))
                     m == ReportMatch(a, Unwrap(src_ip), Unwrap(src_port), dec.val,
                                      col.color)
                 IN  [map |-> col.map, list |-> col.list, color |-> col.color,
                      decoded |-> TRUE, out |-> m.out, panic |-> m.panic]
            ELSE [skip EXCEPT !.decoded = TRUE,
                              !.out = DecodeErrorLines(a.verbose, dec.err,
                                                       ethernet.payload)]

\* lines 134-193
LoopBody(a, map, list, f) ==
    LET skip == [map |-> map, list |-> list, color |-> None, decoded |-> FALSE,
                 out |-> <<>>, panic |-> None]
        sliced == from_ethernet(f)
    IN
    IF ~sliced.ok
    THEN [skip EXCEPT !.out = EthernetErrorLines(a.verbose, sliced.err)]
    ELSE
        LET ethernet == sliced.val
            src_port == UdpSourcePort(ethernet)
            src_ip == Ipv4SourceAddr(ethernet)
        IN
        IF src_port = None THEN skip
        ELSE IF src_ip = None THEN skip
        ELSE
            LET col == Colorize(a, map, list, Unwrap(src_ip), Unwrap(src_port))
                dec == deserialize(ethernet.payload)
                res == [map |-> col.map, list |-> col.list, color |-> col.color,
                        decoded |-> TRUE, out |-> <<>>, panic |-> None]
            IN  IF dec.ok
                THEN LET m == ReportMatch(a, Unwrap(src_ip), Unwrap(src_port), dec.val,
                                          col.color)
                     IN  [res EXCEPT !.out = m.out, !.panic = m.panic]
                ELSE [res EXCEPT !.out = DecodeErrorLines(a.verbose, dec.err,
                                                          ethernet.payload)]

-----------------------------------------------------------------------------
(* The state machine *)

\* jupyter-no-output is not running
HookOff == [pc |-> "off", status |-> "ok", lines |-> <<>>, i |-> 0, passed |-> {},
            last |-> None, exit |-> None, printed |-> <<>>]

Init ==
    /\ pc = "resolve"
    /\ \/ args \in ArgsSet /\ wire = Frames
       \/ args \in WideArgsSet /\ wire = WideFrames
    /\ device_name = None
    /\ cap = [opened |-> FALSE, immediate |-> FALSE, filter |-> None, failed |-> FALSE]
    /\ dead_compiled = {}
    /\ filter_string = None
    /\ ip_color_map = <<>>
    /\ color_list = [data |-> Palette, index |-> 0]
    /\ packet = None
    /\ message_color = None
    /\ decode_called = FALSE
    /\ out = <<>>
    /\ panic = None
    /\ hook = HookOff

Panic(msg) ==
    /\ pc' = "panicked"
    /\ panic' = Some(msg)
    /\ out' = <<>>

Proceed(to) ==
    /\ pc' = to
    /\ out' = <<>>
    /\ UNCHANGED panic

\* a search that falls back to the default device
FindDeviceOrDefault(interface) ==
    IF interface \in DeviceList THEN Some(interface) ELSE Some(DefaultDevice)

\* device_list.into_iter().filter(|d| d.name == interface).next()
FindDevice(interface) ==
    IF interface \in DeviceList THEN Some(interface) ELSE None

\* lines 74-91: a named interface must be in the device list; without a name the
\* backend's default device is taken; list() and lookup() may fail or find nothing
ResolveDevice ==
    /\ pc = "resolve"
    /\ UNCHANGED hook
    /\ IF args.interface # None
       THEN \/ LET found == FindDevice(Unwrap(args.interface)) IN
               IF found # None
               THEN device_name' = found /\ Proceed("open")
               ELSE /\ Panic(<<"Failed to find in network interface list",
                               Unwrap(args.interface)>>)
                    /\ UNCHANGED device_name
            \/ /\ Panic(<<"Could not access network interface list">>)
               /\ UNCHANGED device_name
       ELSE \/ device_name' = Some(DefaultDevice) /\ Proceed("open")
            \/ /\ Panic(<<"Failed to look up default device">>)
               /\ UNCHANGED device_name
    /\ UNCHANGED <<args, wire, cap, dead_compiled, filter_string, ip_color_map,
                   color_list, packet, message_color, decode_called>>

\* lines 94-98: from_device(device).unwrap().immediate_mode(true).open().unwrap()
OpenCapture ==
    /\ pc = "open"
    /\ UNCHANGED hook
    /\ \/ /\ cap' = [cap EXCEPT !.opened = TRUE, !.immediate = TRUE]
          /\ Proceed("compile")
       \/ /\ Panic(<<"called Result::unwrap() on an Err value">>)
          /\ UNCHANGED cap
    /\ UNCHANGED <<args, wire, device_name, dead_compiled, filter_string, ip_color_map,
                   color_list, packet, message_color, decode_called>>

\* a BuildFilter that takes the custom expression without compiling it
BuildFilterUnchecked ==
    /\ pc = "compile"
    /\ UNCHANGED hook
    /\ filter_string' = IF args.custom_bpf # None THEN args.custom_bpf
                        ELSE Some(DefaultFilter(args.port))
    /\ Proceed("install")
    /\ UNCHANGED <<args, wire, device_name, cap, dead_compiled, ip_color_map, color_list,
                   packet, message_color, decode_called>>

\* lines 100-108: the default filter, or the custom one once the dead capture
\* (link type ETHERNET) has compiled it; .ok() drops the backend's error, so the
\* panic of expect() carries its own text only
BuildFilter ==
    /\ pc = "compile"
    /\ UNCHANGED hook
    /\ IF args.custom_bpf # None
       THEN LET filter == Unwrap(args.custom_bpf) IN
            IF BpfCompiles(filter)
            THEN /\ dead_compiled' = dead_compiled \cup {<<"ETHERNET", filter, "ok">>}
                 /\ filter_string' = Some(filter)
                 /\ Proceed("install")
            ELSE /\ dead_compiled' = dead_compiled \cup {<<"ETHERNET", filter, "err">>}
                 /\ filter_string' = Some(DefaultFilter(args.port))
                 /\ Panic(<<"Failed to compile custom-bpf">>)
       ELSE /\ filter_string' = Some(DefaultFilter(args.port))
            /\ Proceed("install")
            /\ UNCHANGED dead_compiled
    /\ UNCHANGED <<args, wire, device_name, cap, ip_color_map, color_list, packet,
                   message_color, decode_called>>

\* lines 110-131: cap.filter() compiles and installs the filter on the live capture,
\* or fails; then the banner, the empty color table and the palette
InstallFilter ==
    /\ pc = "install"
    /\ UNCHANGED hook
    /\ \/ /\ BpfCompiles(Unwrap(filter_string))
          /\ cap' = [cap EXCEPT !.filter = filter_string]
          /\ ip_color_map' = <<>>
          /\ color_list' = [data |-> Palette, index |-> 0]
          /\ pc' = "loop"
          /\ out' = <<Banner(Unwrap(device_name), Unwrap(filter_string))>>
          /\ UNCHANGED panic
       \/ /\ Panic(<<"Failed to filter for netwayste packets">>)
          /\ UNCHANGED <<cap, ip_color_map, color_list>>
    /\ UNCHANGED <<args, wire, device_name, dead_compiled, filter_string, packet,
                   message_color, decode_called>>

\* addresses already in the color table, and the frames the wire may carry next:
\* addresses are interchangeable, so a new one is named by the next unused number
AddrsSeen == {k[1] : k \in DOMAIN ip_color_map}
NextFrames == {f \in wire : f.src_ip <= Cardinality(AddrsSeen) + 1}

\* lines 134-193, next_packet() returned Ok(packet)
NextPacket ==
    /\ pc = "loop"
    /\ UNCHANGED hook
    /\ \E f \in NextFrames :
        /\ BpfMatches(Unwrap(cap.filter), f)
        /\ LET r == LoopBody(args, ip_color_map, color_list, f) IN
            /\ packet' = Some(f)
            /\ ip_color_map' = r.map
            /\ color_list' = r.list
            /\ message_color' = r.color
            /\ decode_called' = r.decoded
            /\ out' = r.out
            /\ panic' = r.panic
            /\ pc' = IF r.panic # None THEN "panicked" ELSE "loop"
    /\ UNCHANGED <<args, wire, device_name, cap, dead_compiled, filter_string>>

\* a capture error after which the loop asks for the next frame again
CaptureErrorRetry ==
    /\ pc = "loop"
    /\ UNCHANGED hook
    /\ cap' = [cap EXCEPT !.failed = TRUE]
    /\ out' = <<>>
    /\ UNCHANGED <<pc, args, wire, device_name, dead_compiled, filter_string, ip_color_map,
                   color_list, packet, message_color, decode_called, panic>>

\* line 134, next_packet() returned Err: the while loop ends and main returns
CaptureError ==
    /\ pc = "loop"
    /\ UNCHANGED hook
    /\ cap' = [cap EXCEPT !.failed = TRUE]
    /\ pc' = "exited"
    /\ out' = <<>>
    /\ UNCHANGED <<args, wire, device_name, dead_compiled, filter_string, ip_color_map,
                   color_list, packet, message_color, decode_called, panic>>

Next ==
    \/ ResolveDevice
    \/ OpenCapture
    \/ BuildFilter
    \/ InstallFilter
    \/ NextPacket
    \/ CaptureError

Spec == Init /\ [][Next]_vars

(**************************************************************************)
(* jupyter-no-output (src/jupyter-no-output/jupyter-no-output.rs)         *)
(**************************************************************************)

\* longest `git status --porcelain` output, in lines, and longest notebook, in cells
MaxLines == 2
MaxCells == 2

\* how `git status --porcelain` can end: output() fails, non-zero exit status,
\* stdout that is not UTF-8, or a listing
StatusResults == {"spawn_error", "failed", "not_utf8", "ok"}

\* a porcelain line: columns X and Y, a space, then the path (here cut in its
\* stem and its last six characters); git quotes a path that holds a space
StatusLines ==
    { <<"A", " ", " ", "nb", ".ipynb">>,
      <<"M", " ", " ", "nb", ".ipynb">>,
      <<"D", " ", " ", "nb", ".ipynb">>,
      <<"?", "?", " ", "nb", ".ipynb">>,
      <<"A", " ", " ", "lib", ".rs">>,
      <<"A", " ", " ", "\"", "my nb", ".ipynb", "\"">>,
      <<>> }

StatusOutputs == UNION {[1..n -> StatusLines] : n \in 0..MaxLines}

\* a JSON value found in the `cells` array
Cells ==
    { [is_object |-> FALSE, outputs |-> None],
      [is_object |-> TRUE,  outputs |-> None],
      [is_object |-> TRUE,  outputs |-> Some([is_array |-> FALSE, len |-> 0])],
      [is_object |-> TRUE,  outputs |-> Some([is_array |-> TRUE,  len |-> 0])],
      [is_object |-> TRUE,  outputs |-> Some([is_array |-> TRUE,  len |-> 1])] }

CellLists == UNION {[1..n -> Cells] : n \in 0..MaxCells}

\* what `git show :path` hands back: the command's fate and, when it printed
\* JSON, the shape of the document
GitShowResults ==
    { [kind |-> k, cells |-> <<>>] :
        k \in {"spawn_error", "failed", "not_utf8", "invalid_json", "not_object",
               "no_cells", "cells_not_array"} }
    \cup { [kind |-> "cells_array", cells |-> cs] : cs \in CellLists }

Ok == [res |-> "ok", msg |-> ""]
Bail(msg) == [res |-> "err", msg |-> msg]
Abort(msg) == [res |-> "panic", msg |-> msg]

\* a cell check that lets a non-empty outputs array through
check_cell_any_outputs(cell, i) ==
    IF ~cell.is_object
    THEN Bail("cells[" \o FormatU16(i) \o "] is not an object")
    ELSE IF cell.outputs = None
    THEN Ok
    ELSE IF ~Unwrap(cell.outputs).is_array
    THEN Bail("outputs key in cells[" \o FormatU16(i) \o "] is not an array")
    ELSE Ok

\* lines 70-82: the body of the loop over the cells; i counts from 0
check_cell(cell, i) ==
    IF ~cell.is_object
    THEN Bail("cells[" \o FormatU16(i) \o "] is not an object")
    ELSE IF cell.outputs = None
    THEN Ok
    ELSE IF ~Unwrap(cell.outputs).is_array
    THEN Bail("outputs key in cells[" \o FormatU16(i) \o "] is not an array")
    ELSE IF Unwrap(cell.outputs).len # 0
    THEN Bail("outputs array for cells[" \o FormatU16(i) \o "] is not empty")
    ELSE Ok

\* lines 69-85: the loop stops at the first cell that bails
RECURSIVE check_cells(_, _)
check_cells(cells, n) ==
    IF n > Len(cells)
    THEN Ok
    ELSE LET r == check_cell(cells[n], n - 1) IN
         IF r.res # "ok" THEN r ELSE check_cells(cells, n + 1)

\* lines 47-86
verify_notebook_file(show) ==
    CASE show.kind = "spawn_error"     -> Abort("git show cmd fail")
      [] show.kind = "failed"          -> Bail("git show cmd exited with status")
      [] show.kind = "not_utf8"        -> Abort("non-UTF-8 output from git show cmd")
      [] show.kind = "invalid_json"    -> Bail("expected value")
      [] show.kind = "not_object"      -> Abort("Jupyter NB not an object at top level?!?")
      [] show.kind = "no_cells"        -> Abort("no entry found for key")
      [] show.kind = "cells_not_array" -> Bail("cells top-level key is not an array")
      [] show.kind = "cells_array"     -> check_cells(show.cells, 1)

\* line 27: line.chars().next()
first_char(line) == IF line = <<>> THEN None ELSE Some(line[1])

\* line 31: line.ends_with(".ipynb")
ends_with_ipynb(line) == line # <<>> /\ line[Len(line)] = ".ipynb"

\* line 35: &line[3..line.len()]
path_of(line) == SubSeq(line, 4, Len(line))

\* dissect-netwayste is not running
DissectOff ==
    /\ pc = "off"
    /\ args = [verbose |-> FALSE, interface |-> None, port |-> 12345,
               color_option |-> "NoColor", custom_bpf |-> None]
    /\ wire = {}
    /\ device_name = None
    /\ cap = [opened |-> FALSE, immediate |-> FALSE, filter |-> None, failed |-> FALSE]
    /\ dead_compiled = {}
    /\ filter_string = None
    /\ ip_color_map = <<>>
    /\ color_list = [data |-> Palette, index |-> 0]
    /\ packet = None
    /\ message_color = None
    /\ decode_called = FALSE
    /\ out = <<>>
    /\ panic = None

dissect_vars == <<pc, args, wire, device_name, cap, dead_compiled, filter_string,
                  ip_color_map, color_list, packet, message_color, decode_called, out, panic>>

HookInit ==
    /\ DissectOff
    /\ \E st \in StatusResults, ls \in StatusOutputs :
         hook = [HookOff EXCEPT !.pc = "status", !.status = st,
                                !.lines = IF st = "ok" THEN ls ELSE <<>>]

HookExit(code) == [hook EXCEPT !.pc = "exited", !.exit = Some(code)]

\* lines 15-24: run git status; a failed command ends the hook with code 1
GitStatus ==
    /\ hook.pc = "status"
    /\ hook' = CASE hook.status = "ok" -> [hook EXCEPT !.pc = "lines"]
                 [] hook.status = "failed" ->
                      [HookExit(1) EXCEPT !.printed = << <<"git status cmd exited with status">> >>]
                 [] OTHER -> HookExit(101)
    /\ UNCHANGED dissect_vars

\* lines 28-33: the two `continue`s, for a line that has a first character
considered(line) ==
    /\ first_char(line) \in {Some("A"), Some("M")}
    /\ ends_with_ipynb(line)

\* lines 25-42: one iteration of the loop over the lines, the call of
\* verify_notebook_file included; `show` is what git show answers for the path
ExamineLine ==
    /\ hook.pc = "lines"
    /\ hook.i < Len(hook.lines)
    /\ LET line == hook.lines[hook.i + 1] IN
       IF first_char(line) = None
       THEN hook' = [HookExit(101) EXCEPT !.i = hook.i + 1, !.last = None]
       ELSE IF ~considered(line)
       THEN hook' = [hook EXCEPT !.i = hook.i + 1, !.last = None]
       ELSE \E show \in GitShowResults :
              LET r == verify_notebook_file(show) IN
              hook' = CASE r.res = "ok" ->
                             [hook EXCEPT !.i = hook.i + 1, !.last = Some(show),
                                          !.passed = hook.passed \cup {hook.i + 1}]
                        [] r.res = "err" ->
                             [HookExit(2) EXCEPT
                                 !.i = hook.i + 1, !.last = Some(show),
                                 !.printed = << <<"ERROR(git hook) for notebook",
                                                  path_of(line), r.msg>>,
                                               <<"You may be able to fix this">> >>]
                        [] r.res = "panic" ->
                             [HookExit(101) EXCEPT !.i = hook.i + 1, !.last = Some(show)]
    /\ UNCHANGED dissect_vars

\* line 44: every line has been consumed
EndOfLines ==
    /\ hook.pc = "lines"
    /\ hook.i = Len(hook.lines)
    /\ hook' = HookExit(0)
    /\ UNCHANGED dissect_vars

HookNext ==
    \/ GitStatus
    \/ ExamineLine
    \/ EndOfLines

SpecHook == HookInit /\ [][HookNext]_vars

-----------------------------------------------------------------------------
(* Properties.  Frame is the frame the last next_packet() returned.  A step *)
(* that changes packet is a loop iteration on the new frame: processing the *)
(* same frame twice in a row leaves the state as it is.                     *)

Frame == Unwrap(packet)

\* the last step was a loop iteration, on Frame
Iterated == pc = "loop" /\ packet # None

\* an IPv4/UDP frame that slices
Candidate(f) == f.link = "ok" /\ f.transport = "udp" /\ f.net = "ipv4"

\* the source key of a frame under --color-option
SourceKey(f) ==
    IF args.color_option = "IPAndPort" THEN <<f.src_ip, <<f.sport>>>>
    ELSE <<f.src_ip, <<>>>>

\* this step read a frame whose source key is not in the table yet
FirstSeen ==
    /\ packet' # packet
    /\ packet' # None
    /\ Candidate(Unwrap(packet'))
    /\ args.color_option \in {"IPAndPort", "OnlyIP"}
    /\ SourceKey(Unwrap(packet')) \notin DOMAIN ip_color_map

\* this step read a frame whose source key is in the table already
SeenBefore ==
    /\ packet' # packet
    /\ packet' # None
    /\ Candidate(Unwrap(packet'))
    /\ args.color_option \in {"IPAndPort", "OnlyIP"}
    /\ SourceKey(Unwrap(packet')) \in DOMAIN ip_color_map

\* C1: with colorization enabled, the k-th source key seen for the first time is
\* recorded with palette[(k-1) mod 6] of [Cyan, Yellow, Red, Magenta, Green, Blue],
\* k counting the distinct keys only; the 7th distinct key gets Cyan again.
C1_RoundRobinOrder ==
    [][FirstSeen =>
        LET k == Cardinality(DOMAIN ip_color_map) + 1
            key == SourceKey(Unwrap(packet'))
            color == <<"Cyan", "Yellow", "Red", "Magenta", "Green", "Blue">>[((k - 1) % 6) + 1]
        IN  /\ DOMAIN ip_color_map' = DOMAIN ip_color_map \cup {key}
            /\ ip_color_map'[key] = color
            /\ message_color' = <<color>>
            /\ (k = 7 => color = "Cyan")]_vars

\* C1 witness: the 7th distinct key has just been given Cyan, the color of the 1st
C1_Witness ==
    /\ Iterated
    /\ Cardinality(DOMAIN ip_color_map) = 7
    /\ message_color = <<"Cyan">>
    /\ ip_color_map[SourceKey(Frame)] = "Cyan"
    /\ \E k \in DOMAIN ip_color_map : k # SourceKey(Frame) /\ ip_color_map[k] = "Cyan"
    /\ color_list.index = 1

\* C2: the color table is append-only: no step removes an entry or changes its
\* color; a frame whose key is in the table gets the stored color and leaves the
\* table and the palette cursor as they are.
C2_AppendOnly ==
    [][/\ \A k \in DOMAIN ip_color_map :
            k \in DOMAIN ip_color_map' /\ ip_color_map'[k] = ip_color_map[k]
       /\ SeenBefore =>
            /\ message_color' = <<ip_color_map[SourceKey(Unwrap(packet'))]>>
            /\ ip_color_map' = ip_color_map
            /\ color_list' = color_list]_vars

\* C2 witness: the last frame came from the first source (Cyan) after other sources
\* were recorded, so it was a repeat lookup
C2_Witness ==
    /\ Iterated
    /\ Candidate(Frame)
    /\ Cardinality(DOMAIN ip_color_map) \in 2 .. 6
    /\ message_color = <<"Cyan">>
    /\ ip_color_map[SourceKey(Frame)] = "Cyan"
    /\ color_list.index = Cardinality(DOMAIN ip_color_map) % 6

\* neither UDP port of the frame is --port
OffPort(f) == f.transport = "udp" /\ f.sport # args.port /\ f.dport # args.port

\* C3 as stated: a delivered frame whose UDP source and destination ports both differ
\* from --port produces no output and no color assignment.
C3_OffPortSkipped ==
    (Iterated /\ OffPort(Frame)) => (out = <<>> /\ message_color = None)

\* C3 as amended: under the default filter no off-port UDP frame is delivered; the
\* loop does not look at --port, so an off-port IPv4/UDP frame that a custom filter
\* lets through is colorized and decoded like any other.
C3_OffPortOnlyFiltered ==
    /\ (packet # None /\ args.custom_bpf = None) => ~OffPort(Frame)
    /\ (Iterated /\ args.custom_bpf # None /\ Candidate(Frame) /\ OffPort(Frame)) =>
        /\ decode_called
        /\ args.color_option # "NoColor" =>
            /\ SourceKey(Frame) \in DOMAIN ip_color_map
            /\ message_color = <<ip_color_map[SourceKey(Frame)]>>
        /\ Len(out) = IF Frame.payload = "packet" THEN 1
                      ELSE IF args.verbose THEN 2 ELSE 0

\* C3 witness: filter "udp port 9999", --port 12345, a frame with ports (9999, 9999)
\* is reported and colored
C3_Witness ==
    /\ Iterated
    /\ args.custom_bpf = <<"udp port 9999">>
    /\ args.port = 12345
    /\ Candidate(Frame)
    /\ Frame.sport = 9999 /\ Frame.dport = 9999
    /\ Len(out) = 1 /\ out[1].level = "INFO"
    /\ message_color # None

\* an IPv4/UDP frame whose payload is no netwayste packet
DecodeFails(f) == Candidate(f) /\ f.payload = "junk"

\* C4 as stated: a payload that fails to decode gives no output when verbose is off
\* and exactly one error line when it is on.
C4_OneErrorLine ==
    (Iterated /\ DecodeFails(Frame)) =>
        IF args.verbose THEN Len(out) = 1 /\ out[1].level = "ERROR" ELSE out = <<>>

\* C4 as amended: no output when verbose is off; when it is on, exactly two error
\* lines, the first naming the decode error and the second the raw payload.
C4_TwoErrorLines ==
    (Iterated /\ DecodeFails(Frame)) =>
        IF args.verbose
        THEN /\ Len(out) = 2
             /\ out[1] = [level |-> "ERROR", text |-> <<"Failed de-serialization", "io error">>]
             /\ out[2] = [level |-> "ERROR", text |-> <<"Failed packet contents", Frame.payload>>]
        ELSE out = <<>>

\* C4 witness: verbose, a junk payload, two error lines
C4_Witness ==
    /\ Iterated
    /\ DecodeFails(Frame)
    /\ args.verbose
    /\ Len(out) = 2
    /\ decode_called

\* C5: a payload that decodes gives exactly one informational line and no error
\* line, verbose or not, in every color mode.
C5_OneInfoLine ==
    (Iterated /\ Candidate(Frame) /\ Frame.payload = "packet") =>
        /\ Len(out) = 1
        /\ out[1].level = "INFO"
        /\ out[1].text[1] = "match"

\* C5 witness: a match reported with verbose off and colors off
C5_Witness ==
    /\ Iterated
    /\ Candidate(Frame) /\ Frame.payload = "packet"
    /\ ~args.verbose
    /\ args.color_option = "NoColor"
    /\ Len(out) = 1

\* C6: a frame that fails Ethernet slicing gives no output when verbose is off and
\* exactly one error line when it is on; no color is assigned and the loop goes on.
C6_MalformedFrame ==
    [][(packet' # packet /\ packet' # None /\ Unwrap(packet').link = "bad") =>
        /\ IF args.verbose THEN Len(out') = 1 /\ out'[1].level = "ERROR" ELSE out' = <<>>
        /\ ip_color_map' = ip_color_map
        /\ color_list' = color_list
        /\ message_color' = None
        /\ ~decode_called'
        /\ pc' = "loop"]_vars

\* C6 witness: verbose, a malformed frame, one error line, the loop still running
C6_Witness ==
    /\ Iterated
    /\ Frame.link = "bad"
    /\ args.verbose
    /\ Len(out) = 1
    /\ args.color_option = "IPAndPort"

\* C7: a frame that slices but has no UDP layer or no IPv4 layer is skipped whatever
\* verbose and the color mode are: no line, no decode, no table entry, no cursor move.
C7_NotIpv4UdpSkipped ==
    [][(/\ packet' # packet
        /\ packet' # None
        /\ Unwrap(packet').link = "ok"
        /\ Unwrap(packet').transport # "udp" \/ Unwrap(packet').net # "ipv4") =>
        /\ out' = <<>>
        /\ ~decode_called'
        /\ ip_color_map' = ip_color_map
        /\ color_list' = color_list
        /\ message_color' = None]_vars

\* C7 witness: verbose and colors on, an IPv6/UDP frame with a junk payload is dropped
C7_Witness ==
    /\ Iterated
    /\ Frame.link = "ok" /\ Frame.net = "ipv6" /\ Frame.transport = "udp"
    /\ Frame.payload = "junk"
    /\ args.verbose
    /\ args.color_option = "OnlyIP"
    /\ out = <<>>

\* C8: a custom filter gets past startup, and onto the live capture, only after the
\* dead ETHERNET capture compiled it; once that compile has failed the process has
\* panicked, nothing is installed and no frame is read.
C8_ValidatedBeforeInstall ==
    /\ (args.custom_bpf # None /\ (pc \in {"install", "loop", "exited"} \/ cap.filter # None)) =>
        <<"ETHERNET", Unwrap(args.custom_bpf), "ok">> \in dead_compiled
    /\ (args.custom_bpf # None /\ cap.filter # None) => cap.filter = args.custom_bpf
    /\ (\E c \in dead_compiled : c[3] = "err") =>
        pc = "panicked" /\ cap.filter = None /\ packet = None

\* C8 witness: the custom filter is installed and a frame has been read
C8_Witness ==
    /\ args.custom_bpf = <<"udp port 9999">>
    /\ cap.filter = <<"udp port 9999">>
    /\ <<"ETHERNET", "udp port 9999", "ok">> \in dead_compiled
    /\ packet # None

\* C9: the loop runs only with a resolved device of the device list, an open capture
\* and an installed filter; a named interface that is not in the list never gets past
\* resolution; a process that panicked has read and reported no frame.
C9_LoopOnlyAfterSetup ==
    /\ (pc \in {"loop", "exited"} \/ packet # None) =>
        /\ device_name # None
        /\ Unwrap(device_name) \in {"eth0", "lo"}
        /\ args.interface # None => device_name = args.interface
        /\ cap.opened
        /\ cap.filter # None
        /\ cap.filter = filter_string
    /\ (args.interface # None /\ Unwrap(args.interface) \notin {"eth0", "lo"}) =>
        pc \in {"resolve", "panicked"}
    /\ pc = "panicked" =>
        packet = None /\ cap.filter = None /\ out = <<>> /\ ~decode_called

\* C9 witness: --interface wlan9 is not in the list and the process has panicked
C9_Witness ==
    /\ args.interface = <<"wlan9">>
    /\ pc = "panicked"
    /\ packet = None

\* C10: the filter handed to the live capture, installed and named in the banner, is
\* "udp port <port>" without a custom expression, and the custom expression with one.
C10_FilterString ==
    LET expected == IF args.custom_bpf # None THEN Unwrap(args.custom_bpf)
                    ELSE IF args.port = 12345 THEN "udp port 12345"
                    ELSE "udp port 9999"
    IN  /\ pc \in {"install", "loop", "exited"} => filter_string = <<expected>>
        /\ cap.filter # None => cap.filter = <<expected>>
        /\ (pc = "loop" /\ packet = None) =>
            out = <<[level |-> "INFO",
                     text |-> <<"Listening to device", Unwrap(device_name),
                                "with filter", expected>>]>>

\* C10 witness: --port 9999 and no custom expression: "udp port 9999" is installed
C10_Witness ==
    /\ args.custom_bpf = None
    /\ args.port = 9999
    /\ cap.filter = <<"udp port 9999">>
    /\ pc = "loop"
    /\ packet = None

\* C11: once next_packet() has returned an error the loop is over: that step emits
\* nothing and leaves the color table alone, the process has left the loop, and no
\* later step reads a frame, emits a line or changes anything.
C11_CaptureErrorEndsRun ==
    [][/\ (cap'.failed /\ ~cap.failed) =>
            /\ pc' = "exited"
            /\ out' = <<>>
            /\ packet' = packet
            /\ ip_color_map' = ip_color_map
            /\ color_list' = color_list
       /\ cap.failed => (pc = "exited" /\ UNCHANGED vars)]_vars

\* C11 witness: frames were read and colored, then the capture failed and main returned
C11_Witness ==
    /\ cap.failed
    /\ pc = "exited"
    /\ packet # None
    /\ ip_color_map # <<>>
    /\ out = <<>>

\* C12: a step that reads a frame, whatever the frame, leaves the process in the loop,
\* not panicked and the capture not failed; the loop is left only by a capture error.
C12_FramesNeverEndRun ==
    [][/\ packet' # packet => (pc' = "loop" /\ panic' = None /\ ~cap'.failed)
       /\ (pc = "loop" /\ pc' # "loop") => (pc' = "exited" /\ cap'.failed)]_vars

\* C12 witness: a second source has just been matched and colored, the loop goes on
C12_Witness ==
    /\ Iterated
    /\ Candidate(Frame) /\ Frame.payload = "packet"
    /\ args.color_option = "IPAndPort"
    /\ Cardinality(DOMAIN ip_color_map) = 2
    /\ message_color = <<"Yellow">>
    /\ panic = None /\ ~cap.failed

\* C13: in mode OnlyIP the table is keyed by the address alone, so one address has one
\* entry and one color whatever the source port; in mode IPAndPort it is keyed by
\* (address, port), and two ports of one address hold two entries, each with the
\* palette color of its turn.
C13_KeyByMode ==
    /\ args.color_option = "OnlyIP" =>
        /\ \A k \in DOMAIN ip_color_map : k[2] = <<>>
        /\ (Iterated /\ Candidate(Frame)) =>
            /\ <<Frame.src_ip, <<>>>> \in DOMAIN ip_color_map
            /\ message_color = <<ip_color_map[<<Frame.src_ip, <<>>>>]>>
    /\ args.color_option = "IPAndPort" =>
        /\ \A k \in DOMAIN ip_color_map : k[2] # <<>>
        /\ (Iterated /\ Candidate(Frame)) =>
            /\ <<Frame.src_ip, <<Frame.sport>>>> \in DOMAIN ip_color_map
            /\ message_color = <<ip_color_map[<<Frame.src_ip, <<Frame.sport>>>>]>>
        /\ \A j, k \in DOMAIN ip_color_map :
            (Cardinality(DOMAIN ip_color_map) <= 6 /\ j # k) =>
                ip_color_map[j] # ip_color_map[k]

\* C13 witness: mode IPAndPort, address 1 seen on both ports holds two entries with
\* two colors
C13_Witness ==
    /\ Iterated
    /\ args.color_option = "IPAndPort"
    /\ <<1, <<12345>>>> \in DOMAIN ip_color_map
    /\ <<1, <<9999>>>> \in DOMAIN ip_color_map
    /\ ip_color_map[<<1, <<12345>>>>] # ip_color_map[<<1, <<9999>>>>]
    /\ Frame.src_ip = 1

\* C14: in mode NoColor the color table stays empty and the cursor stays at the first
\* color, and a matched frame is reported as plain text.
C14_NoColorNoTable ==
    args.color_option = "NoColor" =>
        /\ ip_color_map = <<>>
        /\ color_list.index = 0
        /\ message_color = <<>>
        /\ (Iterated /\ Candidate(Frame) /\ Frame.payload = "packet") =>
            out = <<[level |-> "INFO",
                     text |-> <<"match", Frame.src_ip, Frame.sport, "Packet", <<>> >>]>>

\* C14 witness: mode NoColor, a frame matched and reported without a color
C14_Witness ==
    /\ Iterated
    /\ args.color_option = "NoColor"
    /\ Candidate(Frame) /\ Frame.payload = "packet"
    /\ Len(out) = 1 /\ out[1].text[5] = <<>>
    /\ ip_color_map = <<>>

\* C15: when the custom filter fails to compile, the panic message holds the filter
\* expression and the backend's reason for rejecting it.
C15_CompileErrorReported ==
    (pc = "panicked" /\ \E c \in dead_compiled : c[3] = "err") =>
        LET msg == Unwrap(panic) IN
        /\ \E i \in DOMAIN msg : msg[i] = Unwrap(args.custom_bpf)
        /\ \E i \in DOMAIN msg : msg[i] = BpfCompileError(Unwrap(args.custom_bpf))

\* C16: with a custom filter, --port has no effect: the filter built and installed is
\* the custom one, the banner names it, and on every frame of the wire the loop body
\* yields the same table, cursor, color and lines for every other value of --port.
C16_PortHasNoEffect ==
    args.custom_bpf # None =>
        /\ pc \in {"install", "loop", "exited"} => filter_string = args.custom_bpf
        /\ cap.filter # None => cap.filter = args.custom_bpf
        /\ (pc = "loop" /\ packet = None) =>
            out = <<[level |-> "INFO",
                     text |-> <<"Listening to device", Unwrap(device_name),
                                "with filter", Unwrap(args.custom_bpf)>>]>>
        /\ pc = "loop" =>
            \A p \in {12345, 9999} : \A f \in wire :
                LoopBody([args EXCEPT !.port = p], ip_color_map, color_list, f)
                    = LoopBody(args, ip_color_map, color_list, f)

\* C16 witness: filter "ip", --port 9999: a frame on port 12345 only is matched
C16_Witness ==
    /\ Iterated
    /\ args.custom_bpf = <<"ip">>
    /\ args.port = 9999
    /\ Candidate(Frame)
    /\ Frame.sport = 12345 /\ Frame.dport = 12345
    /\ Frame.payload = "packet"
    /\ Len(out) = 1

\* C17: with colors on, a frame with a new source key whose payload does not decode
\* still records the key with the palette color of its turn and moves the cursor on,
\* although nothing is printed when verbose is off.
C17_ColorBeforeDecode ==
    [][(FirstSeen /\ Unwrap(packet').payload = "junk") =>
        LET key == SourceKey(Unwrap(packet'))
            k == Cardinality(DOMAIN ip_color_map)
        IN  /\ key \in DOMAIN ip_color_map'
            /\ ip_color_map'[key] =
                <<"Cyan", "Yellow", "Red", "Magenta", "Green", "Blue">>[(k % 6) + 1]
            /\ color_list'.index = (color_list.index + 1) % 6
            /\ decode_called'
            /\ ~args.verbose => out' = <<>>]_vars

\* C17 witness: verbose off, the second source sent junk: nothing printed, Yellow taken
C17_Witness ==
    /\ Iterated
    /\ DecodeFails(Frame)
    /\ ~args.verbose
    /\ out = <<>>
    /\ Cardinality(DOMAIN ip_color_map) = 2
    /\ ip_color_map[SourceKey(Frame)] = "Yellow"
    /\ color_list.index = 2

\* C18: a match reported with colors on carries the color set in that iteration, which
\* is the color stored for the frame's key; message_color.unwrap() never panics.
C18_ColorSetWhenReported ==
    /\ (Iterated /\ Candidate(Frame) /\ Frame.payload = "packet"
            /\ args.color_option # "NoColor") =>
        /\ message_color # <<>>
        /\ message_color = <<ip_color_map[SourceKey(Frame)]>>
        /\ out = <<[level |-> "INFO",
                    text |-> <<"match", Frame.src_ip, Frame.sport, "Packet",
                               message_color>>]>>
    /\ panic # << <<"called Option::unwrap() on a None value">> >>

\* C18 witness: mode OnlyIP, the first source matched and reported in Cyan
C18_Witness ==
    /\ Iterated
    /\ args.color_option = "OnlyIP"
    /\ Candidate(Frame) /\ Frame.payload = "packet"
    /\ message_color = <<"Cyan">>
    /\ Len(out) = 1 /\ out[1].text[5] = <<"Cyan">>

\* C19: the palette cursor is the number of table entries mod 6, and the numbers of
\* keys holding any two palette colors differ by at most one.
C19_CursorCountsEntries ==
    LET colors == {"Cyan", "Yellow", "Red", "Magenta", "Green", "Blue"}
        n(c) == Cardinality({k \in DOMAIN ip_color_map : ip_color_map[k] = c})
    IN  /\ color_list.index = Cardinality(DOMAIN ip_color_map) % 6
        /\ \A k \in DOMAIN ip_color_map : ip_color_map[k] \in colors
        /\ \A c, d \in colors : n(c) - n(d) \in {-1, 0, 1}

\* C19 witness: seven entries, the cursor back on the second color, Cyan held twice
C19_Witness ==
    /\ Cardinality(DOMAIN ip_color_map) = 7
    /\ color_list.index = 1
    /\ Cardinality({k \in DOMAIN ip_color_map : ip_color_map[k] = "Cyan"}) = 2
    /\ Cardinality({k \in DOMAIN ip_color_map : ip_color_map[k] = "Yellow"}) = 1

\* the lines the hook has to look at: first column A or M, path ending in .ipynb
ConsideredLines ==
    {k \in 1..Len(hook.lines) :
        /\ Len(hook.lines[k]) >= 4
        /\ hook.lines[k][1] \in {"A", "M"}
        /\ LET path == path_of(hook.lines[k]) IN path[Len(path)] = ".ipynb"}

\* every cell is an object with no outputs key or with an empty outputs array
CleanCells(cells) ==
    \A n \in 1..Len(cells) :
        /\ cells[n].is_object
        /\ \/ cells[n].outputs = None
           \/ /\ Unwrap(cells[n].outputs).is_array
              /\ Unwrap(cells[n].outputs).len = 0

\* C20: the hook verifies only the lines with first column A or M and a path
\* ending in .ipynb, in order: a failed git status ends it with code 1; it ends
\* with code 2 at the first such notebook that fails verification, later lines
\* untouched; it ends with success only when every such notebook verified; and
\* a notebook whose top-level cells is an array verifies exactly when every cell
\* is an object with no outputs key or an empty outputs array
C20_HookVerdict ==
    /\ hook.passed \subseteq ConsideredLines
    /\ hook.last # None => hook.i \in ConsideredLines
    /\ (hook.pc = "exited" /\ hook.status = "failed") => hook.exit = Some(1)
    /\ hook.exit = Some(1) => hook.status = "failed" /\ hook.i = 0
    /\ hook.exit = Some(2) =>
         /\ hook.i \in ConsideredLines
         /\ hook.i \notin hook.passed
         /\ hook.passed = {k \in ConsideredLines : k < hook.i}
         /\ hook.last # None
         /\ ~(Unwrap(hook.last).kind = "cells_array" /\ CleanCells(Unwrap(hook.last).cells))
    /\ hook.exit = Some(0) => hook.passed = ConsideredLines
    /\ (hook.last # None /\ Unwrap(hook.last).kind = "cells_array") =>
         IF CleanCells(Unwrap(hook.last).cells)
         THEN hook.i \in hook.passed /\ hook.exit \in {None, Some(0)}
         ELSE hook.i \notin hook.passed /\ hook.exit = Some(2)

\* the first of two staged notebooks has a cell with outputs: code 2, and the
\* second notebook was never read
C20_Witness ==
    /\ hook.exit = Some(2)
    /\ hook.i = 1
    /\ ConsideredLines = {1, 2}
    /\ hook.passed = {}
    /\ Unwrap(hook.last).kind = "cells_array"
    /\ \E n \in 1..Len(Unwrap(hook.last).cells) :
         Unwrap(hook.last).cells[n].outputs = Some([is_array |-> TRUE, len |-> 1])

====
